---- MODULE Spec2Model ----
(***************************************************************************)
(* Model of the filter-and-aggregate pipeline of src/app.py, the Streamlit *)
(* retail inventory and demand dashboard.                                  *)
(*                                                                         *)
(* The script is rerun from top to bottom on every widget change.  The     *)
(* state is the loaded dataframe, the widget selections and what the last  *)
(* run left behind: the exception that stopped it (if any) and             *)
(* filtered_df.  Everything a tab shows is a function of filtered_df and   *)
(* is an operator named after the script's variable.                       *)
(*                                                                         *)
(* Numbers.  Measure columns (Demand Forecast, Stock, Sales, Stockout) are *)
(* floats in the data; a value v of the model stands for v / Scale, so     *)
(* that fractional values and int()'s truncation are representable.        *)
(* Quotients are kept as exact fractions; floating-point rounding is not   *)
(* modelled.  Store, Category, Product and Date values are small integers  *)
(* (0 is the falsy value of a column: 0, "" or False).  NaN is the missing *)
(* value (NaN / NaT) pandas gives an empty cell.                           *)
(***************************************************************************)
EXTENDS Integers, Sequences, FiniteSets, TLC

VARIABLES df, columns, selected_stores, selected_categories,
          selected_products, selected_dates, status, filtered_df

vars == <<df, columns, selected_stores, selected_categories,
          selected_products, selected_dates, status, filtered_df>>

\* ---------------------------------------------------------------- bounds
MaxRows == 2
MaxProducts == 11
Scale == 2

\* ------------------------------------------------------- program constants
TopN == 10
DefaultLimit == 5
NaN == -1000

\* --------------------------------------------------------------- helpers
Range(s) == {s[i] : i \in 1..Len(s)}

Min(a, b) == IF a <= b THEN a ELSE b

SymDiff(S, v) == IF v \in S THEN S \ {v} ELSE S \cup {v}

RECURSIVE SeqSum(_)
SeqSum(s) == IF s = <<>> THEN 0 ELSE Head(s) + SeqSum(Tail(s))

\* A row of the sheet.  "Demand" is the 'Demand Forecast' column.
Row(s, c, p, d, dem, stock, sales, so) ==
    [Store |-> s, Category |-> c, Product |-> p, Date |-> d,
     Demand |-> dem, Stock |-> stock, Sales |-> sales, Stockout |-> so]

OptionalColumns ==
    {"Store", "Category", "Product", "Date", "Stock", "Sales", "Stockout"}

\* The sheets' column layouts: every optional column, one of them missing,
\* or none of the optional measures.
ColumnSets ==
    { OptionalColumns,
      OptionalColumns \ {"Store"},
      OptionalColumns \ {"Category"},
      OptionalColumns \ {"Product"},
      OptionalColumns \ {"Date"},
      OptionalColumns \ {"Stock", "Sales", "Stockout"} }

\* A row as read from a sheet with the columns cols: an absent column has
\* no values.
Blank(row, cols) ==
    [c \in DOMAIN row |-> IF c = "Demand" \/ c \in cols THEN row[c] ELSE NaN]

\* Rows the small sheets are made of: two ordinary rows, rows whose
\* dimension values are falsy, rows with missing cells, fractional and
\* negative forecasts.
Palette ==
    << Row(1,   1, 1,   1,   3,   2, 4,   0),
       Row(2,   2, 2,   2,   2,   1, 3,   1),
       Row(0,   1, 1,   1,   -3,  0, 1,   0),
       Row(NaN, 1, 2,   NaN, 1,   3, NaN, 0),
       Row(1,   2, NaN, 2,   NaN, 2, 2,   1),
       Row(0,   0, 0,   2,   0,   0, 0,   0) >>

\* ------------------------------------------------------ sidebar (28-43)
\* Series.unique(): the distinct values in order of first appearance, a
\* missing value included.
RECURSIVE UniqueUpTo(_, _)
UniqueUpTo(col, n) ==
    IF n = 0 THEN <<>>
    ELSE LET u == UniqueUpTo(col, n - 1)
         IN  IF df[n][col] \in Range(u) THEN u ELSE Append(u, df[n][col])

Unique(col) == UniqueUpTo(col, Len(df))

\* df[col].unique() if col in df.columns else []
Options(col) == IF col \in columns THEN Unique(col) ELSE <<>>

stores == Options("Store")
categories == Options("Category")
products == Options("Product")

\* default=list(x)[:5] if len(x) > 5 else x
Default(options) ==
    IF Len(options) > DefaultLimit
    THEN Range(SubSeq(options, 1, DefaultLimit))
    ELSE Range(options)

date_col == "Date" \in columns

ValidDates == {df[i].Date : i \in 1..Len(df)} \ {NaN}

\* Series.min() / Series.max() skip NaT.
min_date == CHOOSE d \in ValidDates : \A e \in ValidDates : d <= e
max_date == CHOOSE d \in ValidDates : \A e \in ValidDates : d >= e

\* What st.date_input can return for the range: two dates within
\* [min_date, max_date], start first.
DateRanges ==
    {r \in (min_date..max_date) \X (min_date..max_date) : r[1] <= r[2]}

\* ------------------------------------------------ apply filters (45-54)
\* x.any() of the ndarray unique() returned: some value is truthy (NaN is).
ArrayAny(col) == \E i \in 1..Len(df) : df[i][col] # 0

\* x.any() where x is the list [] of an absent column: lists have no .any().
RaisesAttributeError ==
    \E col \in {"Store", "Category", "Product"} : col \notin columns

\* (df[col].isin(selected) if x.any() else True), at row i.  isin matches
\* a missing value against a missing value.
DimMask(any, col, selected, i) ==
    IF any THEN df[i][col] \in selected ELSE TRUE

\* if selected_dates and date_col
HasDateMask(sd) == sd # <<>> /\ date_col

\* (df[date_col] >= start) & (df[date_col] <= end): a comparison with NaT
\* is False.
DateMask(sd, i) ==
    /\ df[i].Date # NaN
    /\ sd[1] # NaN /\ sd[2] # NaN
    /\ df[i].Date >= sd[1]
    /\ df[i].Date <= sd[2]

\* mask stays the Python scalar True when every dimension was skipped and
\* no date mask was and-ed in; df[True] is then a column lookup, a KeyError.
RaisesKeyError(sd) ==
    /\ ~ArrayAny("Store") /\ ~ArrayAny("Category") /\ ~ArrayAny("Product")
    /\ ~HasDateMask(sd)

\* df[mask]: the rows where mask is True, by index label, in df's order.
\* mask is the conjunction of the three dimension masks and, when there is
\* one, the date mask.
BoolIndex(ss, sc, sp, sd) ==
    LET anyStore == ArrayAny("Store")
        anyCategory == ArrayAny("Category")
        anyProduct == ArrayAny("Product")
        hasDate == HasDateMask(sd)
        mask(i) == /\ DimMask(anyStore, "Store", ss, i)
                   /\ DimMask(anyCategory, "Category", sc, i)
                   /\ DimMask(anyProduct, "Product", sp, i)
                   /\ (hasDate => DateMask(sd, i))
    IN  SelectSeq([i \in 1..Len(df) |-> i], mask)

\* One run of the script down to filtered_df.
Script(ss, sc, sp, sd) ==
    IF RaisesAttributeError THEN [status |-> "AttributeError", view |-> <<>>]
    ELSE IF RaisesKeyError(sd) THEN [status |-> "KeyError", view |-> <<>>]
    ELSE [status |-> "ok", view |-> BoolIndex(ss, sc, sp, sd)]

Rerun(ss, sc, sp, sd) ==
    LET r == Script(ss, sc, sp, sd)
    IN  /\ status' = r.status
        /\ filtered_df' = r.view

\* ----------------------------------------------------------- behaviour
\* The first run: the widgets hold their defaults.
FirstRun ==
    /\ selected_stores = Default(stores)
    /\ selected_categories = Default(categories)
    /\ selected_products = Default(products)
    /\ selected_dates = IF date_col THEN <<min_date, max_date>> ELSE <<>>
    /\ LET r == Script(selected_stores, selected_categories,
                       selected_products, selected_dates)
       IN  /\ status = r.status
           /\ filtered_df = r.view

\* load_data() on a small sheet, then the first run.  A sheet with a date
\* column has at least one date (st.date_input is given min_date/max_date).
Init ==
    \E n \in 0..MaxRows : \E f \in [1..n -> 1..Len(Palette)] :
    \E cols \in ColumnSets :
        /\ df = [i \in 1..n |-> Blank(Palette[f[i]], cols)]
        /\ columns = cols
        /\ "Date" \in cols => \E i \in 1..n : df[i].Date # NaN
        /\ FirstRun

\* The user adds or removes one option of a multiselect; the script reruns.
ToggleStore ==
    \E v \in Range(stores) :
        /\ selected_stores' = SymDiff(selected_stores, v)
        /\ Rerun(selected_stores', selected_categories, selected_products,
                 selected_dates)
        /\ UNCHANGED <<df, columns, selected_categories, selected_products,
                       selected_dates>>

ToggleCategory ==
    \E v \in Range(categories) :
        /\ selected_categories' = SymDiff(selected_categories, v)
        /\ Rerun(selected_stores, selected_categories', selected_products,
                 selected_dates)
        /\ UNCHANGED <<df, columns, selected_stores, selected_products,
                       selected_dates>>

ToggleProduct ==
    \E v \in Range(products) :
        /\ selected_products' = SymDiff(selected_products, v)
        /\ Rerun(selected_stores, selected_categories, selected_products',
                 selected_dates)
        /\ UNCHANGED <<df, columns, selected_stores, selected_categories,
                       selected_dates>>

\* The user picks a date range; the script reruns.
SelectDates ==
    /\ date_col
    /\ \E r \in DateRanges :
        /\ selected_dates' = r
        /\ Rerun(selected_stores, selected_categories, selected_products, r)
        /\ UNCHANGED <<df, columns, selected_stores, selected_categories,
                       selected_products>>

Next == ToggleStore \/ ToggleCategory \/ ToggleProduct \/ SelectDates

Spec == Init /\ [][Next]_vars

\* Sheets with MaxProducts products, one row each, followed by a second row
\* for product 1: "ties" has equal forecasts and its rows in descending
\* product order, "distinct" has different forecasts in ascending order,
\* "mixed" has forecasts of both signs and zeros, in descending order.
DemandPatterns == {"ties", "distinct", "mixed"}

PatternDemand(pat, k) ==
    CASE pat = "ties" -> 2
      [] pat = "distinct" -> k
      [] OTHER -> (k % 3) - 1

RankRow(pat, k) ==
    Row(1, 1, k, 1, PatternDemand(pat, k), k % 2, MaxProducts + 1 - k, 0)

RankSheet(pat) ==
    [i \in 1..(MaxProducts + 1) |->
        IF i = MaxProducts + 1 THEN Row(1, 1, 1, 1, 1, 1, NaN, 1)
        ELSE RankRow(pat, IF pat = "distinct" THEN i
                          ELSE MaxProducts + 1 - i)]

\* load_data() on a sheet of many products, then the first run.
InitRank ==
    \E pat \in DemandPatterns :
        /\ df = RankSheet(pat)
        /\ columns = OptionalColumns
        /\ FirstRun

SpecRank == InitRank /\ [][Next]_vars

\* ------------------------------------------------------ pandas reducers
\* Series.sum(): missing values are skipped; the sum of nothing is 0.
RECURSIVE ColSum(_, _)
ColSum(view, col) ==
    IF view = <<>> THEN 0
    ELSE (IF df[Head(view)][col] = NaN THEN 0 ELSE df[Head(view)][col])
         + ColSum(Tail(view), col)

\* int() mistaken for a floor.
PyIntFloor(x) == x \div Scale

\* int(x) of a float: truncation toward zero.
PyInt(x) == IF x >= 0 THEN x \div Scale ELSE -((-x) \div Scale)

RECURSIVE SortedSeq(_)
SortedSeq(S) ==
    IF S = {} THEN <<>>
    ELSE LET m == CHOOSE x \in S : \A y \in S : x <= y
         IN  <<m>> \o SortedSeq(S \ {m})

\* The group keys of view.groupby(key): the values present, a missing key
\* dropped, in ascending order.
GroupKeys(view, key) == SortedSeq({df[i][key] : i \in Range(view)} \ {NaN})

\* view.groupby(key)[val].sum(): a Series, here the sequence of its
\* (key, val) entries.
GroupBySum(view, key, val) ==
    LET ks == GroupKeys(view, key)
    IN  [j \in 1..Len(ks) |->
            [key |-> ks[j],
             val |-> ColSum(SelectSeq(view, LAMBDA i : df[i][key] = ks[j]),
                            val)]]

RemoveAt(s, j) == SubSeq(s, 1, j - 1) \o SubSeq(s, j + 1, Len(s))

\* nlargest with keep='last': of equal values the last one comes first.
RECURSIVE NLargestKeepLast(_, _)
NLargestKeepLast(s, n) ==
    IF n <= 0 \/ s = <<>> THEN <<>>
    ELSE LET j == CHOOSE j \in 1..Len(s) :
                    /\ \A k \in 1..Len(s) : s[k].val <= s[j].val
                    /\ \A k \in (j + 1)..Len(s) : s[k].val < s[j].val
         IN  <<s[j]>> \o NLargestKeepLast(RemoveAt(s, j), n - 1)

\* Series.nlargest(n), keep='first': the n largest values, largest first,
\* equal values in the order they have in the Series.
RECURSIVE NLargest(_, _)
NLargest(s, n) ==
    IF n <= 0 \/ s = <<>> THEN <<>>
    ELSE LET j == CHOOSE j \in 1..Len(s) :
                    /\ \A k \in 1..Len(s) : s[k].val <= s[j].val
                    /\ \A k \in 1..(j - 1) : s[k].val < s[j].val
         IN  <<s[j]>> \o NLargest(RemoveAt(s, j), n - 1)

\* Series.nsmallest(n), keep='first'.
RECURSIVE NSmallest(_, _)
NSmallest(s, n) ==
    IF n <= 0 \/ s = <<>> THEN <<>>
    ELSE LET j == CHOOSE j \in 1..Len(s) :
                    /\ \A k \in 1..Len(s) : s[k].val >= s[j].val
                    /\ \A k \in 1..(j - 1) : s[k].val > s[j].val
         IN  <<s[j]>> \o NSmallest(RemoveAt(s, j), n - 1)

\* Series.sort_values(ascending=False).
SortValuesDesc(s) == NLargest(s, Len(s))

Vals(s) == [j \in 1..Len(s) |-> s[j].val]

\* Series.cumsum()
CumSum(s) ==
    LET v == Vals(s)
    IN  [j \in 1..Len(s) |-> SeqSum(SubSeq(v, 1, j))]

\* Float division a / b as numpy does it: x/0 is nan or +-inf, no
\* exception.  A finite quotient is the fraction num/den with den > 0.
TrueDiv(a, b) ==
    IF b = 0
    THEN [kind |-> IF a = 0 THEN "nan" ELSE IF a > 0 THEN "inf" ELSE "-inf",
          num |-> 0, den |-> 1]
    ELSE [kind |-> "num",
          num |-> IF b > 0 THEN a ELSE -a,
          den |-> IF b > 0 THEN b ELSE -b]

\* pivot_table with its default aggfunc ('mean') instead of 'sum'.
PivotTableMean(view, index, cols, val) ==
    LET kept == SelectSeq(view,
                    LAMBDA i : df[i][index] # NaN /\ df[i][cols] # NaN)
        rk == GroupKeys(kept, index)
        ck == GroupKeys(kept, cols)
    IN  [index |-> rk,
         columns |-> ck,
         cell |-> [r \in Range(rk), c \in Range(ck) |->
                    LET rows == SelectSeq(kept,
                            LAMBDA i : df[i][index] = r /\ df[i][cols] = c)
                    IN  IF rows = <<>> THEN 0
                        ELSE ColSum(rows, val) \div Len(rows)]]

\* view.pivot_table(index=, columns=, values=, aggfunc='sum',
\* fill_value=0): rows with a missing key are dropped by the grouping; the
\* axes are the keys left; a pair without rows is filled with 0.
PivotTable(view, index, cols, val) ==
    LET kept == SelectSeq(view,
                    LAMBDA i : df[i][index] # NaN /\ df[i][cols] # NaN)
        rk == GroupKeys(kept, index)
        ck == GroupKeys(kept, cols)
    IN  [index |-> rk,
         columns |-> ck,
         cell |-> [r \in Range(rk), c \in Range(ck) |->
                    LET rows == SelectSeq(kept,
                            LAMBDA i : df[i][index] = r /\ df[i][cols] = c)
                    IN  IF rows = <<>> THEN 0 ELSE ColSum(rows, val)]]

\* ------------------------------------------------ tab 1: KPIs (69-87)
kpi_total_demand == PyInt(ColSum(filtered_df, "Demand"))
kpi_total_stock == PyInt(ColSum(filtered_df, "Stock"))
kpi_total_sales == PyInt(ColSum(filtered_df, "Sales"))
kpi_stockout_days == PyInt(ColSum(filtered_df, "Stockout"))

ViewDates == {df[i].Date : i \in Range(filtered_df)} \ {NaN}

\* (max - min).days + 1; max and min of no dates are NaT, and NaT.days is
\* nan.
days ==
    IF ViewDates = {} THEN NaN
    ELSE (CHOOSE d \in ViewDates : \A e \in ViewDates : d >= e)
         - (CHOOSE d \in ViewDates : \A e \in ViewDates : d <= e) + 1

\* ------------------------------------------- tabs 2-3: rankings, ABC
top_demand == NLargest(GroupBySum(filtered_df, "Date", "Demand"), TopN)
prod_demand == NLargest(GroupBySum(filtered_df, "Product", "Demand"), TopN)
prod_sales == NLargest(GroupBySum(filtered_df, "Product", "Sales"), TopN)
low_stock == NSmallest(GroupBySum(filtered_df, "Product", "Stock"), TopN)

abc == SortValuesDesc(prod_demand)

\* The cumulative sum divided by the whole view's total instead of abc's.
cum_pct_of_view_total ==
    LET a == abc
        c == CumSum(a)
        t == ColSum(filtered_df, "Demand")
    IN  [j \in 1..Len(a) |-> TrueDiv(c[j], t)]

\* abc.cumsum() / abc.sum()
cum_pct ==
    LET a == abc
        c == CumSum(a)
        t == SeqSum(Vals(a))
    IN  [j \in 1..Len(a) |-> TrueDiv(c[j], t)]

abc_df ==
    LET a == abc
        c == cum_pct
    IN  [j \in 1..Len(a) |->
            [Product |-> a[j].key, Demand |-> a[j].val,
             CumulativePct |-> c[j]]]

\* ------------------------------------------------ tabs 4-6
store_demand == SortValuesDesc(GroupBySum(filtered_df, "Store", "Demand"))
cat_demand == SortValuesDesc(GroupBySum(filtered_df, "Category", "Demand"))

pivot == PivotTable(filtered_df, "Product", "Store", "Demand")
pivot2 == PivotTable(filtered_df, "Store", "Category", "Demand")

\* ====================================================================
\* Properties
\* ====================================================================
Rows == 1..Len(df)

AllRows == [i \in Rows |-> i]

\* The sum of column col over a set of rows, missing values left out.
RECURSIVE SetSum(_, _)
SetSum(S, col) ==
    IF S = {} THEN 0
    ELSE LET i == CHOOSE i \in S : TRUE
         IN  (IF df[i][col] = NaN THEN 0 ELSE df[i][col])
             + SetSum(S \ {i}, col)

ViewRows == Range(filtered_df)

\* The row i satisfies the selection, as the specification defines the
\* Filtered View: each dimension the sheet has must be selected, and the
\* date must lie in the range when there is a date column and a range.
Selected(i) ==
    /\ "Store" \in columns => df[i].Store \in selected_stores
    /\ "Category" \in columns => df[i].Category \in selected_categories
    /\ "Product" \in columns => df[i].Product \in selected_products
    /\ (date_col /\ selected_dates # <<>>) =>
          /\ df[i].Date # NaN
          /\ selected_dates[1] <= df[i].Date
          /\ df[i].Date <= selected_dates[2]

ExpectedView == SelectSeq(AllRows, Selected)

Dimensions == {"Store", "Category", "Product"}

\* C1: after any sequence of selection changes, the Filtered View is
\* exactly the rows of the dataset whose store, category and product are
\* selected and whose date lies in the inclusive range, in dataset order,
\* each once, whatever was selected before.  Stated of the runs that
\* produce a Filtered View.
C1_FilteredViewExact == status = "ok" => filtered_df = ExpectedView

\* C2: on a dataset that lacks a Store, Category or Product column the
\* filters do not fail; the absent dimension is skipped and the Filtered
\* View is decided by the other dimensions and the date range.
C2_AbsentDimensionSkipped ==
    (\E d \in Dimensions : d \notin columns) =>
        /\ status = "ok"
        /\ filtered_df = ExpectedView

ViewDemandTotal == SetSum(ViewRows, "Demand")

\* C3 as stated: the 'Total Demand Forecast' KPI equals the sum of the
\* demand forecast over the rows of the Filtered View.
C3_KpiEqualsSum ==
    status = "ok" => kpi_total_demand * Scale = ViewDemandTotal

\* C3 as amended: the 'Total Demand Forecast' KPI is the sum of the demand
\* forecast over the rows of the Filtered View (missing values left out)
\* truncated toward zero to an integer.
C3_KpiIsTruncatedSum ==
    status = "ok" =>
        LET t == ViewDemandTotal
            k == kpi_total_demand
        IN  /\ t >= 0 => (k >= 0 /\ k * Scale <= t /\ t < (k + 1) * Scale)
            /\ t < 0 => (k <= 0 /\ k * Scale >= t /\ t > (k - 1) * Scale)

\* A proper part of the dataset is shown and its total is negative and
\* not a whole number.
C3_Witness ==
    /\ status = "ok"
    /\ filtered_df # <<>>
    /\ Len(filtered_df) < Len(df)
    /\ ViewDemandTotal < 0
    /\ ViewDemandTotal % Scale # 0

FullSelection ==
    /\ selected_stores = Range(stores)
    /\ selected_categories = Range(categories)
    /\ selected_products = Range(products)
    /\ date_col => selected_dates = <<min_date, max_date>>

\* C4: with every observed value of every present dimension selected and
\* the full date range, the Filtered View is the whole dataset, rows with
\* a missing dimension value or date included.  Stated of the runs that
\* produce a Filtered View.
C4_FullSelectionIsIdentity ==
    (status = "ok" /\ FullSelection) => filtered_df = AllRows

SelectionOf(d) ==
    CASE d = "Store" -> selected_stores
      [] d = "Category" -> selected_categories
      [] OTHER -> selected_products

\* C5: when the selection of a dimension is empty, the Filtered View is
\* empty and every aggregation over it is zero or empty (the date-range
\* KPI has no value).  Stated of the runs that produce a Filtered View.
C5_EmptySelectionEmptyView ==
    (status = "ok" /\ \E d \in Dimensions : SelectionOf(d) = {}) =>
        /\ filtered_df = <<>>
        /\ kpi_total_demand = 0 /\ kpi_total_stock = 0
        /\ kpi_total_sales = 0 /\ kpi_stockout_days = 0
        /\ days \in {0, NaN}
        /\ top_demand = <<>> /\ prod_demand = <<>> /\ prod_sales = <<>>
        /\ low_stock = <<>> /\ abc_df = <<>>
        /\ store_demand = <<>> /\ cat_demand = <<>>
        /\ pivot.index = <<>> /\ pivot.columns = <<>>
        /\ pivot2.index = <<>> /\ pivot2.columns = <<>>

\* The sum of the cells of a pivot table.
RECURSIVE CellSum(_, _)
CellSum(cell, D) ==
    IF D = {} THEN 0
    ELSE LET x == CHOOSE x \in D : TRUE
         IN  cell[x] + CellSum(cell, D \ {x})

PivotTotal(pv) == CellSum(pv.cell, DOMAIN pv.cell)

Keyed(rowdim, coldim) ==
    {i \in ViewRows : df[i][rowdim] # NaN /\ df[i][coldim] # NaN}

PairRows(rowdim, coldim, r, c) ==
    {i \in ViewRows : df[i][rowdim] = r /\ df[i][coldim] = c}

\* C6 as stated, for one pivot: the cells sum to the demand grouped by the
\* row dimension alone, summed over its groups; every pair of keys that
\* occurs has a cell; a pair that does not occur has 0.
PivotConserves(pv, rowdim, coldim) ==
    /\ PivotTotal(pv) = SeqSum(Vals(GroupBySum(filtered_df, rowdim, "Demand")))
    /\ \A i \in Keyed(rowdim, coldim) :
          <<df[i][rowdim], df[i][coldim]>> \in DOMAIN pv.cell
    /\ \A x \in DOMAIN pv.cell :
          PairRows(rowdim, coldim, x[1], x[2]) = {} => pv.cell[x] = 0

\* C6 as stated: both pivots (Product x Store, Store x Category) conserve
\* the grouped demand of their row dimension.
C6_PivotMassConservation ==
    status = "ok" =>
        /\ PivotConserves(pivot, "Product", "Store")
        /\ PivotConserves(pivot2, "Store", "Category")

\* C6 as amended, for one pivot: the pivot is built from the rows whose
\* row key and column key are both present.  Its axes are the keys of
\* those rows, each cell is the demand of the rows of its pair (0 for a
\* pair without rows), the cells sum to the demand of those rows, and that
\* is the grouped demand of the row dimension when no row with a row key
\* lacks its column key.
PivotConservesKeyed(pv, rowdim, coldim) ==
    LET keyed == Keyed(rowdim, coldim)
    IN  /\ Range(pv.index) = {df[i][rowdim] : i \in keyed}
        /\ Range(pv.columns) = {df[i][coldim] : i \in keyed}
        /\ DOMAIN pv.cell = Range(pv.index) \X Range(pv.columns)
        /\ \A x \in DOMAIN pv.cell :
              pv.cell[x] =
                  SetSum(PairRows(rowdim, coldim, x[1], x[2]), "Demand")
        /\ PivotTotal(pv) = SetSum(keyed, "Demand")
        /\ (\A i \in ViewRows : df[i][rowdim] # NaN => df[i][coldim] # NaN)
              => PivotTotal(pv) =
                   SeqSum(Vals(GroupBySum(filtered_df, rowdim, "Demand")))

C6_PivotConservesKeyedRows ==
    status = "ok" =>
        /\ PivotConservesKeyed(pivot, "Product", "Store")
        /\ PivotConservesKeyed(pivot2, "Store", "Category")

\* Both pivots have two row keys; the Product x Store pivot has two
\* stores, a nonzero total and a pair of keys without rows, filled with 0.
C6_Witness ==
    /\ status = "ok"
    /\ Len(pivot.index) = 2 /\ Len(pivot.columns) = 2
    /\ PivotTotal(pivot) # 0
    /\ \E x \in DOMAIN pivot.cell :
          PairRows("Product", "Store", x[1], x[2]) = {} /\ pivot.cell[x] = 0
    /\ Len(pivot2.index) = 2

ViewProducts == {df[i].Product : i \in ViewRows} \ {NaN}

\* C7: the ABC table has one row per distinct product of the Filtered
\* View, its Demand column sums to the view's total demand forecast, and
\* the denominator of the cumulative fraction is that total, for any
\* number of products.
C7_AbcCoversWholeView ==
    status = "ok" =>
        LET t == abc_df
        IN  /\ Len(t) = Cardinality(ViewProducts)
            /\ SeqSum([j \in 1..Len(t) |-> t[j].Demand]) = ViewDemandTotal
            /\ SeqSum(Vals(abc)) = ViewDemandTotal

Keys(s) == {s[j].key : j \in 1..Len(s)}

Pos(s, k) == CHOOSE j \in 1..Len(s) : s[j].key = k

\* r is the top-n ranking of the grouped sum g: min(n, number of keys)
\* entries of g, values unchanged, no key twice, largest first, none
\* smaller than an entry left out, equal values in the order their keys
\* have in g.
IsTopN(g, n, r) ==
    /\ Len(r) = Min(n, Len(g))
    /\ \A j \in 1..Len(r) : \E k \in 1..Len(g) : g[k] = r[j]
    /\ \A i, j \in 1..Len(r) : r[i].key = r[j].key => i = j
    /\ \A j \in 1..(Len(r) - 1) : r[j].val >= r[j + 1].val
    /\ \A k \in 1..Len(g) : g[k].key \notin Keys(r) =>
          \A j \in 1..Len(r) : r[j].val >= g[k].val
    /\ \A i, j \in 1..Len(r) :
          (i < j /\ r[i].val = r[j].val) => Pos(g, r[i].key) < Pos(g, r[j].key)

FracLeq(f, g) == f.num * g.den <= g.num * f.den

IsOne(f) == f.kind = "num" /\ f.num = f.den

\* Every fraction is a number and none is smaller than the one before.
NonDecreasing(fs) ==
    /\ \A j \in 1..Len(fs) : fs[j].kind = "num"
    /\ \A j \in 1..(Len(fs) - 1) : FracLeq(fs[j], fs[j + 1])

AbcTotal == SeqSum(Vals(abc))

\* C9 as stated: when the ABC grand total is not 0, the cumulative
\* fractions never decrease down the table and the last one is 1.
C9_CumulativeMonotoneToOne ==
    (status = "ok" /\ AbcTotal # 0) =>
        LET c == cum_pct
        IN  /\ NonDecreasing(c)
            /\ IsOne(c[Len(c)])

\* C9 as amended: when the ABC grand total is not 0, every cumulative
\* fraction is a number and the last one is 1; the fractions never
\* decrease when the summed demands of the table are all >= 0 or all <= 0.
C9_CumulativeToOne ==
    (status = "ok" /\ AbcTotal # 0) =>
        LET a == abc
            c == cum_pct
        IN  /\ \A j \in 1..Len(c) : c[j].kind = "num"
            /\ IsOne(c[Len(c)])
            /\ (\/ \A j \in 1..Len(a) : a[j].val >= 0
                \/ \A j \in 1..Len(a) : a[j].val <= 0)
                  => NonDecreasing(c)

\* A full ABC table of products with positive demand, cut from a view of
\* more products, whose fractions rise strictly to 1.
C9_Witness ==
    /\ status = "ok"
    /\ Cardinality(ViewProducts) > TopN
    /\ LET a == abc
           c == cum_pct
       IN  /\ Len(a) = TopN
           /\ \A j \in 1..Len(a) : a[j].val > 0
           /\ ~FracLeq(c[2], c[1])
           /\ IsOne(c[TopN])

\* C10: when the ABC grand total is 0 there is no division by zero: every
\* cumulative fraction of the table is 0.
C10_ZeroTotalGivesZero ==
    (status = "ok" /\ AbcTotal = 0) =>
        LET c == cum_pct
        IN  \A j \in 1..Len(c) : c[j].kind = "num" /\ c[j].num = 0

====
